---- MODULE Spec2Model ----
(***************************************************************************)
(* Verification model of meli_api_vanzak: the flat-file upsert store       *)
(* (src/csv_utils.py, src/report_utils.py, src/jobs.py) and the resilient  *)
(* request engine (src/meli_client.py, src/auth.py).                       *)
(***************************************************************************)
EXTENDS Integers, Sequences, FiniteSets, TLC

(* ------------------------------------------------------------------ *)
(* Bounds of the model                                                  *)
(* ------------------------------------------------------------------ *)
\* longest batch of rows handed to one upsert call
MaxBatch == 2
\* polls of a held lock file before the waiting call gives up
\* (stands for lock_timeout_s / poll_s)
MaxPolls == 2
\* most rows in the batch of a concurrent call
MaxLockBatch == 1

\* longest batch and most stored rows of the sequences of short batches
MaxSeqBatch == 2
MaxSeqRows == 2

\* most job cycles of one scheduler process
MaxCycles == 3

\* largest Retry-After header value, in seconds
MaxRetryAfter == 2
\* most rows a first call may leave in the dataset file (a first call that
\* would leave more is not taken; a repeated call is always taken)
MaxRows == 2

(* ------------------------------------------------------------------ *)
(* Python values: str, None, int, bool                                  *)
(* ------------------------------------------------------------------ *)
PyNone == [t |-> "none", s |-> "", n |-> 0]
PyStr(x) == [t |-> "str", s |-> x, n |-> 0]
PyInt(i) == [t |-> "int", s |-> "", n |-> i]
PyBool(b) == [t |-> "bool", s |-> "", n |-> IF b THEN 1 ELSE 0]

Digits == <<"0", "1", "2", "3", "4", "5", "6", "7", "8", "9">>

\* Python str(v)
Str(v) ==
  CASE v.t = "none" -> "None"
    [] v.t = "str" -> v.s
    [] v.t = "int" -> Digits[v.n + 1]
    [] v.t = "bool" -> IF v.n = 1 THEN "True" ELSE "False"

\* what csv.writer puts in a cell: None is written as the empty string,
\* every other non-string value through str()
CsvCell(v) == IF v.t = "none" THEN "" ELSE Str(v)

\* val in ("", None)
IsBlank(v) == v.t = "none" \/ (v.t = "str" /\ v.s = "")

(* ------------------------------------------------------------------ *)
(* Sequences and insertion-ordered dicts                                *)
(* ------------------------------------------------------------------ *)
Range(s) == {s[i] : i \in DOMAIN s}

\* a Python dict: its keys in insertion order and its mapping
Dict(ks, f) == [keys |-> ks, val |-> [c \in Range(ks) |-> f[c]]]

DictGet(d, c, default) == IF c \in DOMAIN d.val THEN d.val[c] ELSE default

\* d[c] = v
DictSet(d, c, v) ==
  IF c \in DOMAIN d.val
  THEN [d EXCEPT !.val[c] = v]
  ELSE [keys |-> Append(d.keys, c),
        val |-> [x \in DOMAIN d.val \cup {c} |-> IF x = c THEN v ELSE d.val[x]]]

\* d.pop(c, None)
DictPop(d, c) ==
  IF c \notin DOMAIN d.val THEN d
  ELSE [keys |-> SelectSeq(d.keys, LAMBDA x : x # c),
        val |-> [x \in DOMAIN d.val \ {c} |-> d.val[x]]]

\* {**d, **r}
RECURSIVE DictMergeFrom(_, _, _)
DictMergeFrom(d, r, i) ==
  IF i > Len(r.keys) THEN d
  ELSE DictMergeFrom(DictSet(d, r.keys[i], r.val[r.keys[i]]), r, i + 1)

DictMerge(d, r) == DictMergeFrom(d, r, 1)

(* ------------------------------------------------------------------ *)
(* The dataset file and csv.DictReader / csv.DictWriter                 *)
(* ------------------------------------------------------------------ *)
\* a file that does not exist
NoFile == [exists |-> FALSE, header |-> <<>>, rows |-> <<>>]

\* csv.DictReader: the header line, then one dict of strings per data line;
\* a line with no cell at all (an empty header's rows) is skipped
ReadHeader(f) == IF f.exists THEN f.header ELSE <<>>

ReadRows(f) ==
  IF ~f.exists \/ f.header = <<>> THEN <<>>
  ELSE [i \in DOMAIN f.rows |->
          [keys |-> f.header,
           val |-> [c \in Range(f.header) |-> PyStr(f.rows[i][c])]]]

\* csv.DictWriter(fieldnames=header): writeheader, then
\* writerow({c: row.get(c, "") for c in header}) for every row
WriteCsv(header, rows) ==
  [exists |-> TRUE,
   header |-> header,
   rows |-> [i \in DOMAIN rows |->
               [c \in Range(header) |-> CsvCell(DictGet(rows[i], c, PyStr("")))]]]

(* ------------------------------------------------------------------ *)
(* String order and sorting                                             *)
(* ------------------------------------------------------------------ *)
\* the strings of the model in Python's (code point) order
StrOrder ==
  <<"", "0", "1", "2", "3", "4", "5", "6", "7", "8", "9", "A", "B", "False",
    "None", "True", "ad_id", "clicks", "cost", "date", "status">>

StrRank(x) == CHOOSE i \in DOMAIN StrOrder : StrOrder[i] = x

StrLess(a, b) == StrRank(a) < StrRank(b)

\* a < b on tuples of strings of the same length
RECURSIVE TupleLessFrom(_, _, _)
TupleLessFrom(a, b, i) ==
  IF i > Len(a) THEN FALSE
  ELSE IF a[i] # b[i] THEN StrLess(a[i], b[i])
  ELSE TupleLessFrom(a, b, i + 1)

TupleLess(a, b) == TupleLessFrom(a, b, 1)

\* the tuple of str(r.get(k, "")) the rows are sorted by
SortTuple(r, sort_by) ==
  [i \in DOMAIN sort_by |-> Str(DictGet(r, sort_by[i], PyStr("")))]

\* insert r behind every element that is not greater (a stable sort)
RECURSIVE InsertSorted(_, _, _)
InsertSorted(sorted, r, sort_by) ==
  IF sorted = <<>> THEN <<r>>
  ELSE IF TupleLess(SortTuple(r, sort_by), SortTuple(Head(sorted), sort_by))
       THEN <<r>> \o sorted
       ELSE <<Head(sorted)>> \o InsertSorted(Tail(sorted), r, sort_by)

RECURSIVE StableSortFrom(_, _, _, _)
StableSortFrom(done, rows, i, sort_by) ==
  IF i > Len(rows) THEN done
  ELSE StableSortFrom(InsertSorted(done, rows[i], sort_by), rows, i + 1, sort_by)

\* sorted(rows, key=lambda r: tuple(str(r.get(k, "")) for k in sort_by));
\* an empty sort_by stands for "no sort requested"
SortRows(rows, sort_by) ==
  IF sort_by = <<>> THEN rows ELSE StableSortFrom(<<>>, rows, 1, sort_by)

(* ------------------------------------------------------------------ *)
(* src/csv_utils.py: upsert_csv                                         *)
(* ------------------------------------------------------------------ *)
\* _row_key: the key field's value, missing or None as "", else str()
RowKey(row, key_fields) ==
  [i \in DOMAIN key_fields |->
     LET v == DictGet(row, key_fields[i], PyStr(""))
     IN IF v.t = "none" THEN "" ELSE Str(v)]

\* idx as upsert_csv builds it while reading: key -> position of the LAST
\* stored row with that key
CsvIndex(existing, key_fields) ==
  LET keys == {RowKey(existing[i], key_fields) : i \in DOMAIN existing}
  IN [k \in keys |->
        CHOOSE i \in DOMAIN existing :
          /\ RowKey(existing[i], key_fields) = k
          /\ \A j \in DOMAIN existing :
               RowKey(existing[j], key_fields) = k => j <= i]

\* _union_cols with allow_new_columns: append the unseen columns in order
RECURSIVE UnionColsFrom(_, _, _)
UnionColsFrom(header, cols, i) ==
  IF i > Len(cols) THEN header
  ELSE UnionColsFrom(IF cols[i] \in Range(header) THEN header
                     ELSE Append(header, cols[i]), cols, i + 1)

UnionCols(header, cols) == UnionColsFrom(header, cols, 1)

\* for row in incoming_list: _union_cols(row.keys())
RECURSIVE UnionAllFrom(_, _, _)
UnionAllFrom(header, incoming, i) ==
  IF i > Len(incoming) THEN header
  ELSE UnionAllFrom(UnionCols(header, incoming[i].keys), incoming, i + 1)

\* a target header that keeps the header found although a schema is given
CsvHeaderFileFirst(fileHeader, rows, schema, allow_new_columns) ==
  IF fileHeader # <<>> THEN fileHeader ELSE schema

\* a target header that takes up new columns whatever allow_new_columns says
CsvHeaderUnionAlways(fileHeader, rows, schema, allow_new_columns) ==
  IF schema # <<>> THEN schema
  ELSE UnionAllFrom(IF fileHeader # <<>> THEN fileHeader ELSE rows[1].keys, rows, 1)

\* the target header of step 2 and of the expansion at the top of step 3
\* (schema = <<>> stands for schema=None; an empty list is falsy as well)
CsvHeader(fileHeader, rows, schema, allow_new_columns) ==
  IF schema # <<>> THEN schema
  ELSE LET h0 == IF fileHeader # <<>> THEN fileHeader ELSE rows[1].keys
       IN IF allow_new_columns THEN UnionAllFrom(h0, rows, 1) ELSE h0

\* the update of a stored row: for c in header, a value that is neither ""
\* nor None replaces the stored one
RECURSIVE CsvUpdateRowFrom(_, _, _, _)
CsvUpdateRowFrom(old, row, header, i) ==
  IF i > Len(header) THEN old
  ELSE LET val == DictGet(row, header[i], PyNone)
       IN CsvUpdateRowFrom(IF IsBlank(val) THEN old ELSE DictSet(old, header[i], val),
                           row, header, i + 1)

CsvUpdateRow(old, row, header) == CsvUpdateRowFrom(old, row, header, 1)

\* new_row = {c: row.get(c, "") for c in header}
CsvNewRow(row, header) ==
  [keys |-> header,
   val |-> [c \in Range(header) |-> DictGet(row, c, PyStr(""))]]

\* step 3, for row in incoming_list: a row whose key is indexed updates the
\* stored row in place, any other row is appended and indexed
RECURSIVE CsvApply(_, _, _, _, _, _)
CsvApply(existing, idx, incoming, i, key_fields, header) ==
  IF i > Len(incoming) THEN existing
  ELSE LET row == incoming[i]
           k == RowKey(row, key_fields)
       IN IF k \in DOMAIN idx
          THEN CsvApply([existing EXCEPT ![idx[k]] = CsvUpdateRow(@, row, header)],
                        idx, incoming, i + 1, key_fields, header)
          ELSE CsvApply(Append(existing, CsvNewRow(row, header)),
                        [x \in DOMAIN idx \cup {k} |->
                           IF x = k THEN Len(existing) + 1 ELSE idx[x]],
                        incoming, i + 1, key_fields, header)

\* upsert_csv, from the read of the file to the file it leaves behind
\* (sort_key is lambda r: tuple(str(r.get(c, "")) for c in sort_key), <<>> for None)
UpsertCsv(f, rows, key_fields, schema, allow_new_columns, sort_key) ==
  IF schema = <<>> /\ ReadHeader(f) = <<>> /\ rows = <<>>
  THEN f
  ELSE LET existing == ReadRows(f)
           header == CsvHeader(ReadHeader(f), rows, schema, allow_new_columns)
           merged == CsvApply(existing, CsvIndex(existing, key_fields), rows, 1,
                              key_fields, header)
       IN WriteCsv(header, SortRows(merged, sort_key))

(* ------------------------------------------------------------------ *)
(* src/report_utils.py and src/jobs.py: write_csv_upsert_flexible       *)
(* ------------------------------------------------------------------ *)
PRIMARY_COL_ORDER ==
  <<"advertiser_id", "site_id", "date", "campaign_id", "campaign_name", "ad_id",
    "item_id", "item_title", "seller_sku", "status">>

\* tuple(str(r.get(k, "")) for k in key_fields)
FlexKey(row, key_fields) ==
  [i \in DOMAIN key_fields |-> Str(DictGet(row, key_fields[i], PyStr("")))]

\* an index that sends every stored key to the first row
FlexIndexFirstRow(existing, key_fields) ==
  [k \in {FlexKey(existing[i], key_fields) : i \in DOMAIN existing} |-> 1]

\* index[key] = i over the existing rows: the last row of a key wins
FlexIndex(existing, key_fields) ==
  LET keys == {FlexKey(existing[i], key_fields) : i \in DOMAIN existing}
  IN [k \in keys |->
        CHOOSE i \in DOMAIN existing :
          /\ FlexKey(existing[i], key_fields) = k
          /\ \A j \in DOMAIN existing :
               FlexKey(existing[j], key_fields) = k => j <= i]

\* a merge that puts the rows of new keys in front of the rows found
RECURSIVE FlexApplyInFront(_, _, _, _, _)
FlexApplyInFront(merged, index, new_rows, i, key_fields) ==
  IF i > Len(new_rows) THEN merged
  ELSE LET r == new_rows[i]
           k == FlexKey(r, key_fields)
       IN IF k \in DOMAIN index
          THEN FlexApplyInFront([merged EXCEPT ![index[k]] = DictMerge(@, r)],
                                index, new_rows, i + 1, key_fields)
          ELSE FlexApplyInFront(<<r>> \o merged,
                                [x \in DOMAIN index \cup {k} |->
                                   IF x = k THEN 1 ELSE index[x] + 1],
                                new_rows, i + 1, key_fields)

\* for r in new_rows: merged[pos] = {**merged[pos], **r}, or merged.append(r)
RECURSIVE FlexApply(_, _, _, _, _)
FlexApply(merged, index, new_rows, i, key_fields) ==
  IF i > Len(new_rows) THEN merged
  ELSE LET r == new_rows[i]
           k == FlexKey(r, key_fields)
       IN IF k \in DOMAIN index
          THEN FlexApply([merged EXCEPT ![index[k]] = DictMerge(@, r)],
                         index, new_rows, i + 1, key_fields)
          ELSE FlexApply(Append(merged, r),
                         [x \in DOMAIN index \cup {k} |->
                            IF x = k THEN Len(merged) + 1 ELSE index[x]],
                         new_rows, i + 1, key_fields)

\* for r in merged: for f in drop_fields: r.pop(f, None)
RECURSIVE DropFrom(_, _, _)
DropFrom(r, drop_fields, i) ==
  IF i > Len(drop_fields) THEN r
  ELSE DropFrom(DictPop(r, drop_fields[i]), drop_fields, i + 1)

DropFields(merged, drop_fields) ==
  [i \in DOMAIN merged |-> DropFrom(merged[i], drop_fields, 1)]

\* sorted(S) for a set of strings
RECURSIVE SortedStrings(_)
SortedStrings(S) ==
  IF S = {} THEN <<>>
  ELSE LET m == CHOOSE x \in S : \A y \in S : y = x \/ StrLess(x, y)
       IN <<m>> \o SortedStrings(S \ {m})

\* the keys of all rows
RowsKeys(rows) == UNION {DOMAIN rows[i].val : i \in DOMAIN rows}

\* a header rule that inherits the old header also when strict
StableHeaderInheriting(existing_header, rows, strict) ==
  LET keys == Range(existing_header) \cup {k \in RowsKeys(rows) : k # ""}
      primary == SelectSeq(PRIMARY_COL_ORDER, LAMBDA c : c \in keys)
  IN primary \o SortedStrings(keys \ Range(primary))

\* _stable_header_from_rows of report_utils: the primary columns that occur,
\* in their fixed order, then the others sorted
StableHeader(existing_header, rows, strict) ==
  LET keys == (IF strict THEN {} ELSE Range(existing_header))
                \cup {k \in RowsKeys(rows) : k # ""}
      primary == SelectSeq(PRIMARY_COL_ORDER, LAMBDA c : c \in keys)
  IN primary \o SortedStrings(keys \ Range(primary))

\* the rows write_csv_upsert_flexible hands to _stable_header_from_rows and
\* to _write_atomic: read, merged, stripped of drop_fields, sorted
FlexMerged(f, new_rows, key_fields, drop_fields, sort_by, reset_file) ==
  LET existing == ReadRows(IF reset_file THEN NoFile ELSE f)
      merged == FlexApply(existing, FlexIndex(existing, key_fields), new_rows, 1,
                          key_fields)
  IN SortRows(DropFields(merged, drop_fields), sort_by)

\* write_csv_upsert_flexible of report_utils (<<>> stands for an option left None)
FlexUpsert(f, new_rows, key_fields, strict_header, drop_fields, sort_by, reset_file, fallback_header) ==
  LET f0 == IF reset_file THEN NoFile ELSE f
      header_old == IF ReadHeader(f0) = <<>> THEN fallback_header ELSE ReadHeader(f0)
      sorted == FlexMerged(f, new_rows, key_fields, drop_fields, sort_by, reset_file)
  IN WriteCsv(StableHeader(header_old, sorted, strict_header), sorted)

\* _stable_header_from_rows of jobs: like report_utils' with strict=False
JobsStableHeader(existing_header, rows) ==
  LET keys == Range(existing_header) \cup RowsKeys(rows)
      primary == SelectSeq(PRIMARY_COL_ORDER, LAMBDA c : c \in keys)
  IN primary \o SortedStrings({k \in keys : k \notin Range(primary) /\ k # ""})

\* write_csv_upsert_flexible of jobs: no options
JobsUpsert(f, new_rows, key_fields) ==
  LET existing == ReadRows(f)
      merged == FlexApply(existing, FlexIndex(existing, key_fields), new_rows, 1,
                          key_fields)
  IN WriteCsv(JobsStableHeader(ReadHeader(f), merged), merged)

(* ------------------------------------------------------------------ *)
(* The callers' inputs                                                  *)
(* ------------------------------------------------------------------ *)
\* the composite key every call of a dataset is made with
KeyFields == <<"ad_id">>

\* a field the row does not carry
Absent == [t |-> "absent", s |-> "", n |-> 0]

\* the row {"ad_id": k, "cost": c, "clicks": l} without its absent fields
MkRow(k, c, l) ==
  LET all == [x \in {"ad_id", "cost", "clicks"} |->
                IF x = "ad_id" THEN k ELSE IF x = "cost" THEN c ELSE l]
      ks == SelectSeq(<<"ad_id", "cost", "clicks">>, LAMBDA x : all[x] # Absent)
  IN Dict(ks, all)

\* the rows a caller hands in: string, number, boolean, null and absent
\* values, two proper keys, a null key and a missing key
InputRows ==
  {MkRow(PyStr("A"), PyStr("1"), Absent),
   MkRow(PyStr("A"), PyNone, PyBool(TRUE)),
   MkRow(PyStr("A"), PyStr(""), Absent),
   MkRow(PyStr("B"), PyInt(2), Absent),
   MkRow(PyStr("B"), Absent, PyBool(TRUE)),
   MkRow(PyNone, PyStr("1"), Absent),
   MkRow(Absent, PyInt(2), Absent)}

Batches == UNION {[1..n -> InputRows] : n \in 0..MaxBatch}

\* the options of a call, each at its default (<<>> stands for None)
Defaults ==
  [schema |-> <<>>, allow_new_columns |-> FALSE, sort_key |-> <<>>,
   strict_header |-> FALSE, drop_fields |-> <<>>, sort_by |-> <<>>,
   reset_file |-> FALSE, fallback_header |-> <<>>]

\* upsert_csv's options; no caller of the repository passes a sort_key. The
\* callers' schema is the column list of the incoming frame: it holds the key
\* field, or lacks it (build_orders_daily falls back to key_fields=["id"]
\* when the frame has no id column, and passes allow_new_columns=True)
CsvOpts ==
  {[Defaults EXCEPT !.schema = sc, !.allow_new_columns = an] :
     sc \in {<<>>, <<"ad_id", "cost">>}, an \in BOOLEAN}
  \cup {[Defaults EXCEPT !.schema = <<"cost">>, !.allow_new_columns = TRUE]}

\* write_csv_upsert_flexible's options: the defaults, each option alone, and
\* the strict/drop/sort/fallback combination of brand_jobs
FlexOpts ==
  {Defaults,
   [Defaults EXCEPT !.strict_header = TRUE],
   [Defaults EXCEPT !.drop_fields = <<"clicks">>],
   [Defaults EXCEPT !.sort_by = <<"cost">>],
   [Defaults EXCEPT !.reset_file = TRUE],
   [Defaults EXCEPT !.fallback_header = <<"ad_id", "status">>],
   [Defaults EXCEPT !.strict_header = TRUE, !.drop_fields = <<"clicks">>,
                    !.sort_by = <<"cost">>,
                    !.fallback_header = <<"ad_id", "status">>]}

(* ------------------------------------------------------------------ *)
(* State                                                                *)
(* ------------------------------------------------------------------ *)
VARIABLES
  file,    \* the dataset file at the target path
  call,    \* the upsert call just made: implementation, rows, options, and
           \* how many times in a row it has been made (0: none pending)
  before,  \* the dataset file as it was when that call started
  lock,    \* whether the sibling lock file <path>.lock exists
  procs,   \* the concurrent processes calling upsert on the path
  start,   \* the dataset file before the concurrent calls
  rq,       \* one logical call of meli_request: position, counters, last response
  tokens,  \* the persisted token record (tokens.json)
  now,     \* the clock, in seconds
  auth,    \* the last call of get_access_token or refresh_access_token
  sched    \* the scheduler process: its settings, its environment, its cycles

storeVars == <<file, call, before>>

lockVars == <<lock, procs, start>>

reqVars == <<rq, tokens, now, auth>>

vars == <<file, call, before, lock, procs, start, rq, tokens, now, auth, sched>>

NoCall == [impl |-> "none", rows |-> <<>>, opts |-> Defaults, n |-> 0]

StoreInit ==
  /\ file = NoFile
  /\ call = NoCall
  /\ before = NoFile

\* one whole call of an implementation on the file f
Apply(impl, f, rows, opts) ==
  CASE impl = "csv" ->
         UpsertCsv(f, rows, KeyFields, opts.schema, opts.allow_new_columns,
                   opts.sort_key)
    [] impl = "flex" ->
         FlexUpsert(f, rows, KeyFields, opts.strict_header, opts.drop_fields,
                    opts.sort_by, opts.reset_file, opts.fallback_header)
    [] impl = "jobs" -> JobsUpsert(f, rows, KeyFields)

\* csv_utils.upsert_csv(path, rows, key_fields, schema=, allow_new_columns=)
CallUpsertCsv ==
  \E rows \in Batches, opts \in CsvOpts :
    /\ call.n = 0
    /\ Len(Apply("csv", file, rows, opts).rows) <= MaxRows
    /\ file' = Apply("csv", file, rows, opts)
    /\ before' = file
    /\ call' = [impl |-> "csv", rows |-> rows, opts |-> opts, n |-> 1]
    /\ UNCHANGED <<lockVars, reqVars, sched>>

\* report_utils.write_csv_upsert_flexible(path, new_rows, key_fields, ...)
CallFlexUpsert ==
  \E rows \in Batches, opts \in FlexOpts :
    /\ call.n = 0
    /\ Len(Apply("flex", file, rows, opts).rows) <= MaxRows
    /\ file' = Apply("flex", file, rows, opts)
    /\ before' = file
    /\ call' = [impl |-> "flex", rows |-> rows, opts |-> opts, n |-> 1]
    /\ UNCHANGED <<lockVars, reqVars, sched>>

\* jobs.write_csv_upsert_flexible(path, new_rows, key_fields)
CallJobsUpsert ==
  \E rows \in Batches :
    /\ call.n = 0
    /\ Len(Apply("jobs", file, rows, Defaults).rows) <= MaxRows
    /\ file' = Apply("jobs", file, rows, Defaults)
    /\ before' = file
    /\ call' = [impl |-> "jobs", rows |-> rows, opts |-> Defaults, n |-> 1]
    /\ UNCHANGED <<lockVars, reqVars, sched>>

\* the caller makes the very same call a second time in a row
Repeat ==
  /\ call.n = 1
  /\ file' = Apply(call.impl, file, call.rows, call.opts)
  /\ before' = file
  /\ call' = [call EXCEPT !.n = 2]
  /\ UNCHANGED <<lockVars, reqVars, sched>>

\* the caller is done with the call; its rows and options go out of scope
Return ==
  /\ call.n > 0
  /\ call' = NoCall
  /\ before' = NoFile
  /\ UNCHANGED file
  /\ UNCHANGED <<lockVars, reqVars, sched>>

\* no process is making a concurrent call
\* the Retry-After header of a response: absent, or a number of seconds
NoRetryAfter == [present |-> FALSE, secs |-> 0]

\* a sleep of num/den seconds; NoWait: no sleep
NoWait == [num |-> 0, den |-> 1]

\* an optional time: Python None, or t seconds
NoTime == [some |-> FALSE, t |-> 0]

Some(t) == [some |-> TRUE, t |-> t]

\* no exception raised yet
NoError == [kind |-> "none", attempt |-> 0]

\* the header names the engine or its callers set
HeaderNames == {"Authorization", "Accept", "Api-Version"}

\* a header that is not set
NoValue == <<"", 0>>

\* f"Bearer {token}"
Bearer(token) == <<"Bearer", token>>

\* no headers at all (headers=None)
NoHeaders == [n \in HeaderNames |-> NoValue]

\* meli_request is entered: attempt = 0, did_refresh = False; the other fields
\* record what the call has done so far
ReqStart(m) ==
  [pc |-> "start", max_retries |-> m, attempt |-> 0, did_refresh |-> FALSE,
   refreshes |-> 0, resent |-> 0, backoffs |-> 0, n401 |-> 0, nRetryable |-> 0,
   nOther |-> 0, last |-> "none", had_refreshed |-> FALSE, slept |-> FALSE,
   retry_after |-> NoRetryAfter, wait |-> NoWait,
   bearer |-> 0, bearer_exp |-> NoTime, sent_at |-> 0, sent_exp |-> NoTime,
   sent_backoffs |-> 0, raised |-> NoError,
   advertising |-> FALSE, headers |-> NoHeaders, merged_headers |-> NoHeaders,
   sent_headers |-> NoHeaders]

\* no logical call is being made
ReqIdle == [ReqStart(0) EXCEPT !.pc = "idle"]

\* tokens.json absent: load_tokens() returns None
NoTokens ==
  [exists |-> FALSE, access_token |-> 0, refresh_token |-> 0, user_id |-> 0,
   expires_in |-> 0, created_at |-> NoTime, expires_at |-> NoTime]

\* the answer of the provider to a refresh that is never asked
NoResponse ==
  [status |-> "none", access_token |-> 0, refresh_token |-> 0, user_id |-> 0,
   expires_in |-> 0]

\* no authentication call made yet
NoAuth ==
  [op |-> "none", arg |-> 0, before |-> NoTokens, resp |-> NoResponse,
   error |-> "none", token |-> 0, refreshes |-> 0, contacted |-> FALSE, at |-> 0]

\* an environment variable that is not set
Unset == "<unset>"

\* no scheduler process is running
NoSched ==
  [pc |-> "off", environ |-> Unset, BACKFILL_ON_START |-> FALSE,
   BACKFILL_SINCE |-> "", RUN_ORDERS_JOB |-> FALSE,
   ENABLE_RAW_CLEANUP |-> TRUE, cycle |-> 0, called |-> {}]

AuthIdle == tokens = NoTokens /\ now = 0 /\ auth = NoAuth

LockIdle ==
  /\ lock = FALSE
  /\ procs = <<>>
  /\ start = NoFile

Init == StoreInit /\ LockIdle /\ rq = ReqIdle /\ AuthIdle /\ sched = NoSched

Next == CallUpsertCsv \/ CallFlexUpsert \/ CallJobsUpsert \/ Repeat \/ Return

Spec == Init /\ [][Next]_vars

(* ------------------------------------------------------------------ *)
(* Sequences of upsert calls with short batches (SpecSeq)               *)
(* ------------------------------------------------------------------ *)
\* the rows of the short batches: two rows of one key with different
\* columns, a numeric row of a second key
SeqRows ==
  {MkRow(PyStr("A"), PyStr("1"), Absent),
   MkRow(PyStr("A"), Absent, PyBool(TRUE)),
   MkRow(PyStr("B"), PyInt(2), Absent)}

SeqBatches == UNION {[1..n -> SeqRows] : n \in 0..MaxSeqBatch}

\* one upsert call of an implementation with one of its option sets
SeqCall(impl, opts_set) ==
  \E rows \in SeqBatches, opts \in opts_set :
    LET written == Apply(impl, file, rows, opts)
    IN /\ call.n = 0
       /\ Len(written.rows) <= MaxSeqRows
       /\ file' = written
       /\ before' = file
       /\ call' = [impl |-> impl, rows |-> rows, opts |-> opts, n |-> 1]
       /\ UNCHANGED <<lockVars, reqVars, sched>>

SeqUpsertCsv == SeqCall("csv", CsvOpts)

SeqFlexUpsert == SeqCall("flex", FlexOpts)

SeqJobsUpsert == SeqCall("jobs", {Defaults})

SeqNext == SeqUpsertCsv \/ SeqFlexUpsert \/ SeqJobsUpsert \/ Return

SpecSeq == Init /\ [][SeqNext]_vars

(* ------------------------------------------------------------------ *)
(* Two processes calling upsert on the same path (SpecLock)             *)
(* ------------------------------------------------------------------ *)
Procs == {1, 2}

\* the rows of the concurrent batches: two proper keys
LockRows ==
  {MkRow(PyStr("A"), PyStr("1"), Absent), MkRow(PyStr("B"), PyInt(2), Absent)}

LockBatches == UNION {[1..n -> LockRows] : n \in 0..MaxLockBatch}

\* the dataset before the concurrent calls: absent, or holding the row of key A
StartFiles ==
  {NoFile, WriteCsv(<<"ad_id", "cost">>, <<MkRow(PyStr("A"), PyStr("2"), Absent)>>)}

\* the options of a concurrent call: the defaults, or reset_file=True
\* (brand_jobs passes RESET_CSVS) for report_utils
LockOpts(impl) ==
  IF impl = "flex" THEN {Defaults, [Defaults EXCEPT !.reset_file = TRUE]}
  ELSE {Defaults}

\* a call about to start; touched: it has changed the target; samefs: tempfile.gettempdir() lies on the file
\* system of the target, so that os.rename inside shutil.move succeeds
LockProcs ==
  UNION {[pc : {"enter"}, impl : {impl}, rows : LockBatches, opts : LockOpts(impl),
          acquired : {FALSE}, polls : {0}, tmp : {NoFile}, err : {FALSE},
          samefs : BOOLEAN, copied : {0}, touched : {FALSE}]
         : impl \in {"csv", "flex", "jobs"}}

LockInit ==
  /\ start \in StartFiles
  /\ file = start
  /\ call = NoCall
  /\ before = NoFile
  /\ lock = FALSE
  /\ rq = ReqIdle /\ AuthIdle /\ sched = NoSched
  /\ procs \in [Procs -> LockProcs]

\* a create that succeeds although the lock file exists
CreateAlways(l) == TRUE

\* os.open(lock_path, O_CREAT | O_EXCL | O_WRONLY) succeeds
ExclCreate(l) == ~l

\* time.time() - start > timeout_s
TimedOut(polls) == polls > MaxPolls

\* a timeout after which the call goes on into its body without the lock
GoOnUnlocked(pr) == [pr EXCEPT !.pc = "read"]

\* raise TimeoutError: __enter__ is outside the try, nothing else runs
RaiseTimeout(pr) == [pr EXCEPT !.pc = "timeout", !.err = TRUE]

\* an exit that leaves the lock file in place
ReleaseNever(acquired, l) == l

\* if self.acquired and os.path.exists(lock_path): os.remove(lock_path)
Release(acquired, l) == IF acquired /\ l THEN FALSE ELSE l

\* the call leaves its body: upsert_csv through the finally clause
Leave(pr) == [pr EXCEPT !.pc = IF pr.impl = "csv" THEN "exit" ELSE "done"]

\* an exception is raised inside the body
Raise(pr) == Leave([pr EXCEPT !.err = TRUE])

\* the target while shutil.move copies the temporary file over it: the header
\* and the first n rows
Partial(tmp, n) == [exists |-> TRUE, header |-> tmp.header, rows |-> SubSeq(tmp.rows, 1, n)]

\* _FileLock.__enter__: os.open(lock_path, O_CREAT | O_EXCL) succeeds
LockEnter(p) ==
  /\ procs[p].pc = "enter" /\ procs[p].impl = "csv"
  /\ ExclCreate(lock)
  /\ lock' = TRUE
  /\ procs' = [procs EXCEPT ![p].acquired = TRUE, ![p].pc = "read"]
  /\ UNCHANGED <<storeVars, start, reqVars, sched>>

\* _FileLock.__enter__: FileExistsError before the timeout: sleep(poll_s), retry
LockPoll(p) ==
  /\ procs[p].pc = "enter" /\ procs[p].impl = "csv"
  /\ ~ExclCreate(lock)
  /\ procs[p].polls <= MaxPolls
  /\ procs' = [procs EXCEPT ![p].polls = @ + 1]
  /\ UNCHANGED <<storeVars, lock, start, reqVars, sched>>

\* _FileLock.__enter__: FileExistsError after the timeout: TimeoutError
LockTimeout(p) ==
  /\ procs[p].pc = "enter" /\ procs[p].impl = "csv"
  /\ ~ExclCreate(lock)
  /\ TimedOut(procs[p].polls)
  /\ procs' = [procs EXCEPT ![p] = RaiseTimeout(@)]
  /\ UNCHANGED <<storeVars, lock, start, reqVars, sched>>

\* upsert_csv steps 1-4 under the lock: read the file and merge in memory;
\* with no header and no rows there is nothing to do
CsvRead(p) ==
  /\ procs[p].pc = "read"
  /\ procs' = [procs EXCEPT
       ![p].tmp = UpsertCsv(file, procs[p].rows, KeyFields, procs[p].opts.schema,
                            procs[p].opts.allow_new_columns, procs[p].opts.sort_key),
       ![p].pc = IF procs[p].opts.schema = <<>> /\ ReadHeader(file) = <<>>
                       /\ procs[p].rows = <<>>
                 THEN "exit" ELSE "write"]
  /\ UNCHANGED <<storeVars, lock, start, reqVars, sched>>

\* open(path) or csv.DictReader raises while the existing file is read
ReadFail(p) ==
  /\ \/ procs[p].pc = "read"
     \/ procs[p].pc = "reset"
     \/ procs[p].pc = "enter" /\ procs[p].impl \in {"flex", "jobs"}
           /\ ~procs[p].opts.reset_file
  /\ file.exists
  /\ procs' = [procs EXCEPT ![p] = Raise(@)]
  /\ UNCHANGED <<storeVars, lock, start, reqVars, sched>>

\* mkstemp, open(tmp, "w") or a writerow raises: the temporary file is
\* incomplete and the target has not been touched by the write
WriteFail(p) ==
  /\ procs[p].pc = "write"
  /\ procs' = [procs EXCEPT ![p] = Raise(@)]
  /\ UNCHANGED <<storeVars, lock, start, reqVars, sched>>

\* the merged rows are written to the temporary file (upsert_csv step 5,
\* _write_atomic)
WriteTmp(p) ==
  /\ procs[p].pc = "write"
  /\ procs' = [procs EXCEPT ![p].pc = "move"]
  /\ UNCHANGED <<storeVars, lock, start, reqVars, sched>>

\* shutil.move(tmp, path) when os.rename succeeds: one atomic rename
MoveRename(p) ==
  /\ procs[p].pc = "move" /\ procs[p].samefs
  /\ file' = procs[p].tmp
  /\ procs' = [procs EXCEPT ![p] = Leave([@ EXCEPT !.touched = TRUE])]
  /\ UNCHANGED <<call, before, lock, start, reqVars, sched>>

\* shutil.move(tmp, path) when os.rename raises OSError (the temporary
\* directory is on another file system): copy2 opens the target for writing
MoveCopyOpen(p) ==
  /\ procs[p].pc = "move" /\ ~procs[p].samefs
  /\ file' = Partial(procs[p].tmp, 0)
  /\ procs' = [procs EXCEPT ![p].pc = "copy", ![p].copied = 0, ![p].touched = TRUE]
  /\ UNCHANGED <<call, before, lock, start, reqVars, sched>>

\* copy2 writes on: one more row is in the target; after the last one the
\* copy is closed and the temporary file unlinked
MoveCopyRow(p) ==
  /\ procs[p].pc = "copy"
  /\ IF procs[p].copied < Len(procs[p].tmp.rows)
     THEN /\ file' = Partial(procs[p].tmp, procs[p].copied + 1)
          /\ procs' = [procs EXCEPT ![p].copied = @ + 1]
     ELSE /\ file' = file
          /\ procs' = [procs EXCEPT ![p] = Leave(@)]
  /\ UNCHANGED <<call, before, lock, start, reqVars, sched>>

\* _FileLock.__exit__ in the finally clause: remove the lock file if acquired
LockExit(p) ==
  /\ procs[p].pc = "exit"
  /\ lock' = Release(procs[p].acquired, lock)
  /\ procs' = [procs EXCEPT ![p].pc = "done"]
  /\ UNCHANGED <<storeVars, start, reqVars, sched>>

\* write_csv_upsert_flexible(reset_file=True): os.remove(path) comes first
FlexReset(p) ==
  /\ procs[p].pc = "enter" /\ procs[p].impl = "flex"
  /\ procs[p].opts.reset_file /\ file.exists
  /\ file' = NoFile
  /\ procs' = [procs EXCEPT ![p].pc = "reset", ![p].touched = TRUE]
  /\ UNCHANGED <<call, before, lock, start, reqVars, sched>>

\* write_csv_upsert_flexible (report_utils, jobs): _read_csv and the merge in
\* memory, no lock taken
FlexRead(p) ==
  /\ \/ procs[p].pc = "reset"
     \/ procs[p].pc = "enter" /\ procs[p].impl \in {"flex", "jobs"}
           /\ ~(procs[p].opts.reset_file /\ file.exists)
  /\ procs' = [procs EXCEPT
       ![p].tmp = Apply(procs[p].impl, file, procs[p].rows, procs[p].opts),
       ![p].pc = "write"]
  /\ UNCHANGED <<storeVars, lock, start, reqVars, sched>>

LockNext ==
  \E p \in Procs :
    \/ LockEnter(p) \/ LockPoll(p) \/ LockTimeout(p)
    \/ CsvRead(p) \/ ReadFail(p) \/ WriteFail(p) \/ WriteTmp(p)
    \/ MoveRename(p) \/ MoveCopyOpen(p) \/ MoveCopyRow(p) \/ LockExit(p)
    \/ FlexReset(p) \/ FlexRead(p)

SpecLock == LockInit /\ [][LockNext]_vars

\* two upsert_csv calls on one path
CsvLockInit == LockInit /\ \A p \in Procs : procs[p].impl = "csv"

CsvLockNext ==
  \E p \in Procs :
    \/ LockEnter(p) \/ LockPoll(p) \/ LockTimeout(p)
    \/ CsvRead(p) \/ ReadFail(p) \/ WriteFail(p) \/ WriteTmp(p)
    \/ MoveRename(p) \/ MoveCopyOpen(p) \/ MoveCopyRow(p) \/ LockExit(p)

\* every process keeps running: polls sleep poll_s and file operations return
SpecCsvLockFair == CsvLockInit /\ [][CsvLockNext]_vars /\ WF_vars(CsvLockNext)

\* a lock file that goes away with the process that created it
GoneWithProcess(l) == FALSE

\* the lock file of a process that is killed: nothing of the process runs any
\* more, neither the finally clause nor __exit__, and the file is a plain file
LeftBehind(l) == l

\* the process is killed between acquiring the lock and releasing it
Kill(p) ==
  /\ procs[p].impl = "csv" /\ procs[p].acquired
  /\ procs[p].pc \in {"read", "write", "move", "copy", "exit"}
  /\ procs' = [procs EXCEPT ![p].pc = "killed"]
  /\ lock' = LeftBehind(lock)
  /\ UNCHANGED <<storeVars, start, reqVars, sched>>

KillNext ==
  \E p \in Procs :
    \/ LockEnter(p) \/ LockPoll(p) \/ LockTimeout(p)
    \/ CsvRead(p) \/ ReadFail(p) \/ WriteFail(p) \/ WriteTmp(p)
    \/ MoveRename(p) \/ MoveCopyOpen(p) \/ MoveCopyRow(p) \/ LockExit(p)
    \/ Kill(p)

\* two upsert_csv calls on the path of an existing dataset
KillInit == CsvLockInit /\ start.exists

\* either call may be killed; a process that is not killed keeps running
SpecKillFair == KillInit /\ [][KillNext]_vars /\ WF_vars(KillNext)

(* ------------------------------------------------------------------ *)
(* src/auth.py: the token record, refresh_access_token, get_access_token *)
(* ------------------------------------------------------------------ *)
\* the safety margin of get_access_token, in seconds
Margin == 60

\* seconds of validity the provider grants to a new access token
ExpiresIn == 120

\* last instant of the clock
MaxNow == 121

\* the clock moves on by the margin, or by one second less
TickSteps == {Margin - 1, Margin}

\* token records found in tokens.json when a call starts (the clock is at 0):
\* access token 1 with a refresh token and a user id, expiring one second
\* inside the margin, right at the margin, or at twice the margin; the same without a refresh token; and a
\* record of an older version: created_at and expires_in but no expires_at
InitialTokens ==
  {[exists |-> TRUE, access_token |-> 1, refresh_token |-> rt, user_id |-> 1,
    expires_in |-> ExpiresIn, created_at |-> Some(0), expires_at |-> Some(e)]
     : rt \in {0, 1}, e \in {Margin - 1, Margin, 2 * Margin}}
  \cup {[exists |-> TRUE, access_token |-> 1, refresh_token |-> 1, user_id |-> 1,
         expires_in |-> Margin, created_at |-> Some(0), expires_at |-> NoTime],
        NoTokens}

\* what requests.post(TOKEN_URL) ends with: a network failure, a status
\* >= 400, or a token payload that may omit user_id, refresh_token, expires_in
RefreshResponses ==
  [status : {"neterr", "rejected"}, access_token : {0}, refresh_token : {0},
   user_id : {0}, expires_in : {0}]
  \cup [status : {"ok"}, access_token : {2, 3}, refresh_token : {0, 2},
        user_id : {0, 1}, expires_in : {0, ExpiresIn}]

\* the record refresh_access_token saves: the payload, created_at, expires_at
\* when expires_in is given, and the previous user_id when the payload has none
RefreshedRecord(toks, resp, t) ==
  [exists |-> TRUE, access_token |-> resp.access_token,
   refresh_token |-> resp.refresh_token,
   user_id |-> IF resp.user_id = 0 /\ toks.user_id # 0 THEN toks.user_id
               ELSE resp.user_id,
   expires_in |-> resp.expires_in, created_at |-> Some(t),
   expires_at |-> IF resp.expires_in # 0 THEN Some(t + resp.expires_in) ELSE NoTime]

\* a rejected refresh that wipes the record
RefreshRejectedWiping(toks) ==
  [error |-> "HTTPError", contacted |-> TRUE, tokens |-> NoTokens, refreshes |-> 1]

\* resp.raise_for_status() of a rejected refresh: nothing is saved
RefreshRejected(toks) ==
  [error |-> "HTTPError", contacted |-> TRUE, tokens |-> toks, refreshes |-> 1]

\* refresh_access_token(refresh_token=arg) at time t
RefreshAccessToken(toks, arg, resp, t) ==
  LET refresh_token == IF arg # 0 THEN arg ELSE toks.refresh_token
  IN IF refresh_token = 0
     THEN [error |-> "RuntimeError", contacted |-> FALSE, tokens |-> toks,
           refreshes |-> 1]
     ELSE IF resp.status = "neterr"
     THEN [error |-> "ConnectionError", contacted |-> TRUE, tokens |-> toks,
           refreshes |-> 1]
     ELSE IF resp.status = "rejected"
     THEN RefreshRejected(toks)
     ELSE [error |-> "none", contacted |-> TRUE,
           tokens |-> RefreshedRecord(toks, resp, t), refreshes |-> 1]

\* a margin test that also takes a token with exactly the margin left
NearExpiryInclusive(expires_at, t) == expires_at - t <= Margin

\* (expires_at_dt - now).total_seconds() < 60
NearExpiry(expires_at, t) == expires_at - t < Margin

\* the result of get_access_token: an error or a token, the record as saved,
\* the number of refresh calls made
Got(error, token, toks, refreshes) ==
  [error |-> error, token |-> token, tokens |-> toks, refreshes |-> refreshes]

\* get_access_token() at time t; resp answers the refresh it may make
GetAccessToken(toks, resp, t) ==
  IF ~toks.exists THEN Got("RuntimeError", 0, toks, 0)
  ELSE LET backfill == ~toks.expires_at.some /\ toks.created_at.some
                          /\ toks.expires_in # 0
           toks1 == IF backfill
                    THEN [toks EXCEPT
                            !.expires_at = Some(toks.created_at.t + toks.expires_in)]
                    ELSE toks
       IN IF ~toks1.expires_at.some THEN Got("none", toks1.access_token, toks1, 0)
          ELSE IF NearExpiry(toks1.expires_at.t, t)
          THEN LET r == RefreshAccessToken(toks1, toks1.refresh_token, resp, t)
               IN Got(r.error, IF r.error = "none" THEN r.tokens.access_token ELSE 0,
                      r.tokens, 1)
          ELSE Got("none", toks1.access_token, toks1, 0)

AuthInit ==
  /\ tokens \in InitialTokens
  /\ now = 0
  /\ auth = NoAuth
  /\ StoreInit /\ LockIdle /\ rq = ReqIdle /\ sched = NoSched

\* a caller asks for a valid token
AuthGet ==
  /\ \E resp \in RefreshResponses :
       LET g == GetAccessToken(tokens, resp, now)
       IN /\ tokens' = g.tokens
          /\ auth' = [op |-> "get", arg |-> 0, before |-> tokens, resp |-> resp,
                      error |-> g.error, token |-> g.token,
                      refreshes |-> g.refreshes, contacted |-> g.refreshes > 0,
                      at |-> now]
  /\ UNCHANGED <<storeVars, lockVars, rq, now, sched>>

\* a caller refreshes, with its own refresh token (arg) or the stored one (0)
AuthRefresh ==
  /\ \E arg \in {0, 1}, resp \in RefreshResponses :
       LET r == RefreshAccessToken(tokens, arg, resp, now)
       IN /\ tokens' = r.tokens
          /\ auth' = [op |-> "refresh", arg |-> arg, before |-> tokens,
                      resp |-> resp, error |-> r.error,
                      token |-> IF r.error = "none" THEN r.tokens.access_token ELSE 0,
                      refreshes |-> 1, contacted |-> r.contacted, at |-> now]
  /\ UNCHANGED <<storeVars, lockVars, rq, now, sched>>

\* time passes
AuthTick ==
  /\ \E d \in TickSteps : now + d <= MaxNow /\ now' = now + d
  /\ UNCHANGED <<storeVars, lockVars, rq, tokens, auth, sched>>

AuthNext == AuthGet \/ AuthRefresh \/ AuthTick

SpecAuth == AuthInit /\ [][AuthNext]_vars

(* ------------------------------------------------------------------ *)
(* src/meli_client.py: meli_request, one logical call (SpecReq)         *)
(* ------------------------------------------------------------------ *)
RETRY_STATUS == {408, 409, 425, 429, 500, 502, 503, 504}

\* meli_request(max_retries=3)
DefaultMaxRetries == 3

\* meli_request(backoff_base=1.5), as the fraction 3/2
BackoffNum == 3

BackoffDen == 2

\* random.uniform(0.8, 1.2), in tenths: both ends and the middle
Jitters == {8, 10, 12}

\* the status codes the provider answers with
Statuses == {200, 401, 404, 429, 503}

RetryAfters == {NoRetryAfter} \cup [present : {TRUE}, secs : 0..MaxRetryAfter]

\* DEFAULT_TIMEOUT = (10, 60): seconds an attempt may wait for its answer
ReadTimeout == 60

\* how long an attempt started at t takes: no time, or the whole timeout
Elapsed(t) == {0} \cup {d \in {ReadTimeout} : t + d <= MaxNow}

\* the records a request may find: none, or one with an expires_at that is
\* at most the margin away
ReqTokens ==
  {x \in InitialTokens : x.exists => (x.expires_at.some /\ x.expires_at.t <= Margin)}

\* the answers of the provider to a refresh made during a request
ReqResponses ==
  {x \in RefreshResponses :
     x.status = "ok" =>
       (x.access_token = 2 /\ x.user_id = 1 /\ x.expires_in = ExpiresIn)}

RECURSIVE Pow(_, _)
Pow(b, e) == IF e = 0 THEN 1 ELSE b * Pow(b, e - 1)

\* backoff_base ** (attempt - 1) * random.uniform(0.8, 1.2)
BackoffWait(attempt, j) ==
  [num |-> Pow(BackoffNum, attempt - 1) * j, den |-> Pow(BackoffDen, attempt - 1) * 10]

\* float(retry_after) * random.uniform(0.8, 1.2)
RetryAfterWait(secs, j) == [num |-> secs * j, den |-> 10]

\* a budget test that lets one more failure through
BudgetLeftOneMore(attempt, max_retries) == attempt <= max_retries + 1

\* attempt <= max_retries
BudgetLeft(attempt, max_retries) == attempt <= max_retries

\* top of the loop: attempt += 1 and requests.request(...) is sent at time t
\* with the bearer header as it is, and answers (kind)
Sent(r, kind, t) ==
  [r EXCEPT !.attempt = @ + 1, !.last = kind, !.had_refreshed = r.did_refresh,
            !.slept = FALSE, !.retry_after = NoRetryAfter, !.wait = NoWait,
            !.sent_at = t, !.sent_exp = r.bearer_exp, !.sent_backoffs = r.backoffs,
            !.sent_headers = r.merged_headers]

\* time.sleep(wait); continue
Sleep(r, w) == [r EXCEPT !.backoffs = @ + 1, !.slept = TRUE, !.wait = w]

\* whole seconds of a wait
Floor(w) == w.num \div w.den

\* a call that gives up by returning instead of raising
ReturnQuietly(r) == [r EXCEPT !.pc = "success"]

\* raise: the exception being handled goes to the caller; it is the error of
\* the current attempt, or that of the refresh the attempt led to
GiveUp(r) ==
  [r EXCEPT !.pc = "fatal",
            !.raised = [kind |-> IF r.last = "401" /\ ~r.had_refreshed
                                 THEN "refresh" ELSE "attempt",
                        attempt |-> r.attempt]]

\* except requests.RequestException: back off while attempt <= max_retries,
\* else re-raise
ExceptRequestException(r, j) ==
  IF BudgetLeft(r.attempt, r.max_retries)
  THEN Sleep(r, BackoffWait(r.attempt, j))
  ELSE GiveUp(r)

\* refresh_access_token() followed by get_access_token(), at time t
RefreshThenGet(toks, resp, t) ==
  LET res == RefreshAccessToken(toks, 0, resp, t)
  IN IF res.error # "none" THEN Got(res.error, 0, toks, 1)
     ELSE LET g == GetAccessToken(res.tokens, resp, t)
          IN Got(g.error, g.token, g.tokens, 1 + g.refreshes)

\* the 401 branch: refresh_access_token(), get_access_token(), the bearer
\* header is replaced, did_refresh = True, continue; an HTTPError or a network
\* failure of the refresh is a RequestException raised inside the try block,
\* a RuntimeError is not caught
On401Refresh(r, ref, j) ==
  LET r1 == [r EXCEPT !.refreshes = @ + 1]
  IN CASE ref.error = "none" ->
            [r1 EXCEPT !.did_refresh = TRUE, !.resent = @ + 1,
                       !.bearer = ref.token, !.bearer_exp = ref.tokens.expires_at,
                       !.merged_headers["Authorization"] = Bearer(ref.token)]
       [] ref.error \in {"HTTPError", "ConnectionError"} ->
            ExceptRequestException(r1, j)
       [] ref.error = "RuntimeError" -> GiveUp(r1)

\* the body of the try block for a response with this status and header
OnResponse(r, status, ra, ref, j) ==
  IF status = 401 /\ ~r.did_refresh
  THEN On401Refresh(r, ref, j)
  ELSE IF status \in RETRY_STATUS /\ BudgetLeft(r.attempt, r.max_retries)
  THEN Sleep([r EXCEPT !.retry_after = ra],
             IF ra.present THEN RetryAfterWait(ra.secs, j)
             ELSE BackoffWait(r.attempt, j))
  ELSE IF status >= 400
  THEN ExceptRequestException([r EXCEPT !.retry_after = ra], j)  \* raise_for_status()
  ELSE [r EXCEPT !.pc = "success"]

\* merged_headers before the loop: Authorization and Accept, Api-Version "2"
\* for a route of the advertising family, then merged_headers.update(headers)
MergedHeaders(access_token, advertising, headers) ==
  LET defaults == [n \in HeaderNames |->
                     CASE n = "Authorization" -> Bearer(access_token)
                       [] n = "Accept" -> <<"application/json", 0>>
                       [] n = "Api-Version" ->
                            IF advertising THEN <<"2", 0>> ELSE NoValue]
  IN [n \in HeaderNames |->
        IF headers[n] # NoValue THEN headers[n] ELSE defaults[n]]

\* no refresh is made
NoRefresh == Got("none", 0, NoTokens, 0)

ReqInit ==
  /\ rq \in {ReqStart(m) : m \in 0..DefaultMaxRetries}
  /\ tokens \in ReqTokens
  /\ now = 0
  /\ auth = NoAuth
  /\ StoreInit /\ LockIdle /\ sched = NoSched

\* access_token = get_access_token(), before the loop and outside the try
ReqGetToken ==
  /\ rq.pc = "start"
  /\ \E resp \in ReqResponses :
       LET g == GetAccessToken(tokens, resp, now)
       IN /\ tokens' = g.tokens
          /\ rq' = IF g.error # "none"
                   THEN [rq EXCEPT !.pc = "fatal",
                                   !.raised = [kind |-> "token", attempt |-> 0]]
                   ELSE [rq EXCEPT !.pc = "attempt", !.bearer = g.token,
                                   !.bearer_exp = g.tokens.expires_at,
                                   !.merged_headers =
                                      MergedHeaders(g.token, rq.advertising, rq.headers)]
  /\ UNCHANGED <<storeVars, lockVars, now, auth, sched>>

\* a 2xx response: the decoded body is returned
Req2xx ==
  /\ rq.pc = "attempt"
  /\ \E status \in {x \in Statuses : x < 400}, e \in Elapsed(now) :
       /\ rq' = OnResponse(Sent(rq, "ok", now), status, NoRetryAfter, NoRefresh, 10)
       /\ now' = now + e
  /\ UNCHANGED <<storeVars, lockVars, tokens, auth, sched>>

\* a 401 response before any refresh of this call
Req401First ==
  /\ rq.pc = "attempt" /\ ~rq.did_refresh
  /\ \E resp \in ReqResponses, j \in Jitters, e \in Elapsed(now) :
       LET ref == RefreshThenGet(tokens, resp, now + e)
           r == OnResponse([Sent(rq, "401", now) EXCEPT !.n401 = @ + 1], 401,
                           NoRetryAfter, ref, j)
       IN /\ rq' = r
          /\ tokens' = ref.tokens
          /\ now' = now + e + Floor(r.wait)
  /\ UNCHANGED <<storeVars, lockVars, auth, sched>>

\* a 401 response after the call has refreshed
Req401Again ==
  /\ rq.pc = "attempt" /\ rq.did_refresh
  /\ \E j \in Jitters, e \in Elapsed(now) :
       LET r == OnResponse([Sent(rq, "401", now) EXCEPT !.n401 = @ + 1], 401,
                           NoRetryAfter, NoRefresh, j)
       IN rq' = r /\ now' = now + e + Floor(r.wait)
  /\ UNCHANGED <<storeVars, lockVars, tokens, auth, sched>>

\* a response with a status of RETRY_STATUS, with or without Retry-After
ReqRetryStatus ==
  /\ rq.pc = "attempt"
  /\ \E status \in Statuses \cap RETRY_STATUS, ra \in RetryAfters, j \in Jitters,
        e \in Elapsed(now) :
       LET r == OnResponse([Sent(rq, "retryable", now) EXCEPT !.nRetryable = @ + 1],
                           status, ra, NoRefresh, j)
       IN rq' = r /\ now' = now + e + Floor(r.wait)
  /\ UNCHANGED <<storeVars, lockVars, tokens, auth, sched>>

\* a response with another non-success status (400, 403, 404, ...)
ReqOtherStatus ==
  /\ rq.pc = "attempt"
  /\ \E status \in {x \in Statuses \ RETRY_STATUS : x >= 400 /\ x # 401},
        j \in Jitters, e \in Elapsed(now) :
       LET r == OnResponse([Sent(rq, "other", now) EXCEPT !.nOther = @ + 1], status,
                           NoRetryAfter, NoRefresh, j)
       IN rq' = r /\ now' = now + e + Floor(r.wait)
  /\ UNCHANGED <<storeVars, lockVars, tokens, auth, sched>>

\* requests.request raises a RequestException (connection reset, timeout)
ReqNetworkError ==
  /\ rq.pc = "attempt"
  /\ \E j \in Jitters, e \in Elapsed(now) :
       LET r == ExceptRequestException(
                  [Sent(rq, "neterr", now) EXCEPT !.nRetryable = @ + 1], j)
       IN rq' = r /\ now' = now + e + Floor(r.wait)
  /\ UNCHANGED <<storeVars, lockVars, tokens, auth, sched>>

ReqNext ==
  \/ ReqGetToken
  \/ Req2xx \/ Req401First \/ Req401Again \/ ReqRetryStatus \/ ReqOtherStatus
  \/ ReqNetworkError

SpecReq == ReqInit /\ [][ReqNext]_vars

\* every attempt gets its answer (each has a timeout) and every sleep ends
SpecReqFair == SpecReq /\ WF_vars(ReqNext)

\* a token of the caller's own, different from every stored or refreshed one
CallerToken == 9

\* the headers callers pass: none, an Api-Version (HDR_V1), an Authorization
\* of their own, or both
CallerHeaders ==
  {[NoHeaders EXCEPT !["Authorization"] = a, !["Api-Version"] = v] :
     a \in {NoValue, Bearer(CallerToken)}, v \in {NoValue, <<"1", 0>>}}

\* logical calls with caller-supplied headers, on routes of both families,
\* with a budget of one retry
HdrInit ==
  /\ rq \in {[ReqStart(1) EXCEPT !.advertising = adv, !.headers = h] :
              adv \in BOOLEAN, h \in CallerHeaders}
  /\ tokens \in ReqTokens
  /\ now = 0
  /\ auth = NoAuth
  /\ StoreInit /\ LockIdle /\ sched = NoSched

SpecHdr == HdrInit /\ [][ReqNext]_vars

(* ------------------------------------------------------------------ *)
(* scheduler.py: the cycle of jobs                                      *)
(* ------------------------------------------------------------------ *)

\* os.getenv(name, default).lower() in ("1", "true", "yes")
EnvFlag(value, default) ==
  LET got == IF value = Unset THEN default ELSE value
      lower == CASE got = "TRUE" -> "true"
                 [] got = "Yes" -> "yes"
                 [] OTHER -> got
  IN  lower \in {"1", "true", "yes"}

\* values of BACKFILL_ON_START in the environment of a starting process
FlagValues == {Unset, "true", "TRUE", "1", "Yes", "false", "0"}

\* the functions one cycle may call
Jobs ==
  {"backfill_campaigns_daily", "backfill_ads_daily", "job_user_me",
   "job_orders_recent", "job_get_advertiser", "job_campaigns_summary",
   "job_campaigns_daily", "job_ads_summary", "job_ads_daily",
   "cleanup_noninteractive"}

\* one cycle of the process s, in which the functions of raises raise: the
\* backfill is guarded by the module's settings, which were read when the
\* module was imported, and disarming it writes the environment
run_all_jobs(s, raises) ==
  LET backfill == s.BACKFILL_ON_START /\ s.BACKFILL_SINCE # ""
      pair(first, second) ==
        IF first \in raises THEN {first} ELSE {first, second}
  IN  [s EXCEPT
         !.cycle = @ + 1,
         !.environ = IF backfill THEN "false" ELSE @,
         !.called =
           (IF backfill
              THEN pair("backfill_campaigns_daily", "backfill_ads_daily")
              ELSE {})
           \cup {"job_user_me"}
           \cup (IF s.RUN_ORDERS_JOB THEN {"job_orders_recent"} ELSE {})
           \cup {"job_get_advertiser"}
           \cup pair("job_campaigns_summary", "job_campaigns_daily")
           \cup pair("job_ads_summary", "job_ads_daily")
           \cup (IF s.ENABLE_RAW_CLEANUP
                   THEN {"cleanup_noninteractive"} ELSE {})]

\* the module has been imported: its settings are read from the environment
SchedInit ==
  /\ \E on \in FlagValues, since \in {Unset, "2025-01-01"},
        orders \in {Unset, "true"}, cleanup \in {Unset, "false"} :
       sched = [pc |-> "imported", environ |-> on,
                BACKFILL_ON_START |-> EnvFlag(on, "false"),
                BACKFILL_SINCE |-> IF since = Unset THEN "" ELSE since,
                RUN_ORDERS_JOB |-> EnvFlag(orders, "false"),
                ENABLE_RAW_CLEANUP |-> EnvFlag(cleanup, "true"),
                cycle |-> 0, called |-> {}]
  /\ StoreInit /\ LockIdle /\ rq = ReqIdle /\ AuthIdle

\* main(): one cycle at once, then the hourly job is scheduled
main ==
  /\ sched.pc = "imported"
  /\ \E raises \in SUBSET Jobs :
       sched' = [run_all_jobs(sched, raises) EXCEPT !.pc = "scheduled"]
  /\ UNCHANGED <<storeVars, lockVars, reqVars>>

\* the scheduler fires the hourly job
HourlyCycle ==
  /\ sched.pc = "scheduled"
  /\ sched.cycle < MaxCycles
  /\ \E raises \in SUBSET Jobs : sched' = run_all_jobs(sched, raises)
  /\ UNCHANGED <<storeVars, lockVars, reqVars>>

SchedNext == main \/ HourlyCycle

SpecSched == SchedInit /\ [][SchedNext]_vars

(* ------------------------------------------------------------------ *)
(* Claims about the upsert store (checked under Spec)                   *)
(* ------------------------------------------------------------------ *)
\* the key tuple of a stored row: its cells at key_fields, a column the
\* header lacks counting as ""
StoredKey(f, p) ==
  [i \in DOMAIN KeyFields |->
     IF KeyFields[i] \in Range(f.header) THEN f.rows[p][KeyFields[i]] ELSE ""]

StoredKeys(f) == {StoredKey(f, p) : p \in DOMAIN f.rows}

\* C1: a call made twice in a row with the same rows, key_fields and options
\* is idempotent: the second call leaves the dataset (header, rows, order)
\* exactly as the first call left it
C1_Idempotent == call.n = 2 => file = before

\* C10: no two rows of the stored dataset have the same tuple of stringified
\* key_fields values
C10_KeysUnique ==
  \A p, q \in DOMAIN file.rows : p # q => StoredKey(file, p) # StoredKey(file, q)

\* C2: when an incoming row has the key of a stored row, then after the call
\* every written field whose incoming value is non-empty holds the incoming
\* value, and every field that is absent, None or "" in the incoming row keeps
\* the value stored before the call (calls without sort, reset or drop_fields;
\* the key is a string; one incoming and one stored row of that key)
C2_SparseMergeKeepsStored ==
  (call.n = 1 /\ call.opts.sort_by = <<>> /\ ~call.opts.reset_file
     /\ call.opts.drop_fields = <<>>) =>
    \A p \in DOMAIN ReadRows(before), i \in DOMAIN call.rows :
      LET r == call.rows[i]
          k == RowKey(r, KeyFields)
      IN ( /\ \A x \in DOMAIN KeyFields :
                DictGet(r, KeyFields[x], Absent).t = "str" /\ k[x] # ""
           /\ k = StoredKey(before, p)
           /\ \A j \in DOMAIN call.rows : j # i => RowKey(call.rows[j], KeyFields) # k
           /\ \A q \in DOMAIN before.rows : q # p => StoredKey(before, q) # k )
         => \A c \in Range(file.header) :
              LET v == DictGet(r, c, Absent)
              IN IF v = Absent \/ IsBlank(v)
                 THEN c \in Range(before.header) => file.rows[p][c] = before.rows[p][c]
                 ELSE file.rows[p][c] = CsvCell(v)

(* ------------------------------------------------------------------ *)
(* Claims about concurrent upserts (checked under SpecLock)             *)
(* ------------------------------------------------------------------ *)
\* the key tuples of a batch of incoming rows
BatchKeys(rows) == {RowKey(rows[i], KeyFields) : i \in DOMAIN rows}

\* C3: when both processes have completed their upsert on the path (neither
\* timed out on the lock), the dataset holds a row for every key stored
\* before, every key of batch A and every key of batch B
C3_NoRowLost ==
  (\A p \in Procs : procs[p].pc = "done") =>
    (StoredKeys(start) \cup UNION {BatchKeys(procs[p].rows) : p \in Procs})
      \subseteq StoredKeys(file)

(* ------------------------------------------------------------------ *)
(* Claims about the request engine                                      *)
(* ------------------------------------------------------------------ *)
\* C4: a first 401 is refreshed once, re-sent once and costs no retry budget:
\* a call whose only other failures are retryable ones (status or network)
\* fails only at failure number max_retries + 1, with or without a 401 before
C4_First401CostsNoBudget ==
  (rq.pc = "fatal" /\ rq.last \in {"retryable", "neterr"} /\ rq.nOther = 0
     /\ rq.n401 <= 1 /\ rq.refreshes = rq.resent)
    => /\ rq.resent = rq.n401
       /\ rq.nRetryable = rq.max_retries + 1

\* C5: a non-success status outside RETRY_STATUS that is not a first 401 ends
\* the call at once: no sleep, no further attempt
C5_OtherStatusFailsAtOnce ==
  rq.last = "other" => (rq.pc = "fatal" /\ ~rq.slept)

\* C6: a 401 received after the call has refreshed ends the call at once:
\* no sleep, no further attempt
C6_Second401Fatal ==
  (rq.last = "401" /\ rq.had_refreshed) => (rq.pc = "fatal" /\ ~rq.slept)

\* C7: within one logical call refresh is invoked at most once in reaction to
\* 401 responses, whether it succeeds or is rejected
C7_RefreshAtMostOnce == rq.refreshes <= 1

\* C8: every logical call ends in success or fatal, after at most max_retries
\* backoff-and-retry transitions (statuses and network failures together) and
\* at most one refresh-and-retry transition
C8_TerminatesWithinBudget ==
  /\ [](rq.backoffs <= rq.max_retries /\ rq.resent <= 1)
  /\ <>(rq.pc \in {"success", "fatal"})

\* a call with the default budget that used all of it and then failed
C8_Witness ==
  /\ rq.pc = "fatal"
  /\ rq.max_retries = DefaultMaxRetries
  /\ rq.backoffs = rq.max_retries
  /\ rq.last \in {"retryable", "neterr"}

\* C9: a retryable response with Retry-After: N and budget left is followed by
\* a wait of at least N seconds
C9_WaitsAtLeastRetryAfter ==
  (rq.last = "retryable" /\ rq.retry_after.present /\ rq.slept)
    => rq.wait.num >= rq.retry_after.secs * rq.wait.den

\* C16: every physical attempt is sent with a bearer token whose stored
\* expires_at is later than the instant at which the attempt is sent
C16_BearerNotExpired ==
  (rq.attempt > 0 /\ rq.sent_exp.some) => rq.sent_exp.t > rq.sent_at

\* the most recent attempt failed (retryable status or network failure) and
\* was sent with the whole retry budget already spent
BudgetExhausted ==
  /\ rq.attempt > 0 /\ rq.last \in {"retryable", "neterr"}
  /\ rq.sent_backoffs = rq.max_retries

Failed(p) == procs[p].err /\ procs[p].pc \in {"done", "timeout"}

\* no call other than p's has changed the target
Alone(p) == \A q \in Procs \ {p} : ~procs[q].touched

\* C11: a call that fails (lock timeout, read error, error writing the
\* temporary file) leaves the dataset file exactly as it was before the call,
\* whatever its options
C11_FailureLeavesFile ==
  \A p \in Procs : (Failed(p) /\ Alone(p)) => file = start

\* the temporary file of p's call is complete
Written(p) == procs[p].pc \in {"move", "copy", "exit", "done"}

\* C12: whenever a reader opens the target during an upsert it finds the
\* complete dataset of before the call or the complete new dataset
C12_ReaderSeesOldOrNew ==
  \A p \in Procs :
    Alone(p) => (file = start \/ (Written(p) /\ file = procs[p].tmp))

\* the upsert_csv call of p is between acquiring the lock file and releasing it
InSection(p) ==
  /\ procs[p].impl = "csv" /\ procs[p].acquired
  /\ procs[p].pc \in {"read", "write", "move", "copy", "exit"}

\* C13: the read-merge-write sections of two upsert_csv calls on one path
\* never overlap
C13_MutualExclusion ==
  \A p, q \in Procs : p # q => ~(InSection(p) /\ InSection(q))

\* one call is about to move its temporary file while the other one, having
\* found the lock file, is polling
C13_Witness ==
  \E p, q \in Procs :
    /\ p # q /\ InSection(p) /\ procs[p].pc = "move"
    /\ procs[q].impl = "csv" /\ procs[q].pc = "enter" /\ procs[q].polls > 0

\* C14: an upsert_csv call that acquired the lock file has removed it when it
\* has returned or raised: a lock file still there belongs to a call in progress
C14_LockRemovedOnExit ==
  \A p \in Procs :
    (procs[p].impl = "csv" /\ procs[p].acquired /\ procs[p].pc = "done")
      => (lock => \E q \in Procs \ {p} : InSection(q))

\* both calls took the lock and are over, one by an exception and one by the
\* early return on an empty batch with no file, and no lock file is left
C14_Witness ==
  \E p, q \in Procs :
    /\ p # q /\ ~lock
    /\ procs[p].acquired /\ procs[p].pc = "done" /\ procs[p].err
    /\ procs[q].acquired /\ procs[q].pc = "done" /\ ~procs[q].err
    /\ procs[q].rows = <<>> /\ ~file.exists

\* the upsert_csv call of p is over, or in its body, without holding the lock
Unlocked(p) ==
  procs[p].impl = "csv" /\ procs[p].pc # "enter" /\ ~procs[p].acquired

\* C15: a call that finds the lock file held polls until it acquires it or the
\* timeout elapses, and then fails with a timeout error: it has neither read
\* nor written the dataset, the lock file of the holder is still there, and
\* no call waits forever
C15_TimeoutInsteadOfWaiting ==
  /\ [](\A p \in Procs :
          Unlocked(p) =>
            /\ procs[p].pc = "timeout" /\ procs[p].err
            /\ TimedOut(procs[p].polls)
            /\ procs[p].tmp = NoFile /\ ~procs[p].touched
            /\ \A q \in Procs : InSection(q) => lock)
  /\ <>(\A p \in Procs : procs[p].pc # "enter")

\* a call has timed out while the holder of the lock is still writing
C15_Witness ==
  \E p, q \in Procs :
    /\ procs[p].impl = "csv" /\ procs[p].pc = "timeout"
    /\ InSection(q) /\ procs[q].pc = "write" /\ lock

(* ------------------------------------------------------------------ *)
(* Claims about the token record                                        *)
(* ------------------------------------------------------------------ *)
\* the last authentication call made a refresh that succeeded
Refreshed == auth.refreshes = 1 /\ auth.error = "none" /\ auth.contacted

\* C17: after a successful refresh whose response omits user_id or
\* refresh_token, the persisted record carries the user_id and the
\* refresh_token of the previous record
C17_RefreshKeepsIdentity ==
  Refreshed =>
    /\ auth.resp.user_id = 0 => tokens.user_id = auth.before.user_id
    /\ auth.resp.refresh_token = 0 => tokens.refresh_token = auth.before.refresh_token

\* C19: get_access_token on a record with an expires_at: with less than 60
\* seconds left it refreshes exactly once and returns the new access token;
\* otherwise it returns the stored access token, makes no refresh and leaves
\* the record as it is
C19_GetValidToken ==
  (auth.op = "get" /\ auth.before.exists /\ auth.before.expires_at.some) =>
    IF auth.before.expires_at.t - auth.at < Margin
    THEN /\ auth.refreshes = 1
         /\ auth.error = "none" =>
              (auth.token = auth.resp.access_token /\ tokens.access_token = auth.token)
    ELSE /\ auth.refreshes = 0 /\ auth.error = "none"
         /\ auth.token = auth.before.access_token
         /\ tokens = auth.before

\* a token with one second less than the margin left was replaced
C19_Witness ==
  /\ auth.op = "get" /\ auth.before.expires_at.some
  /\ auth.before.expires_at.t - auth.at = Margin - 1
  /\ auth.error = "none" /\ auth.token = auth.resp.access_token
  /\ auth.token # auth.before.access_token

\* C20: refresh_access_token fails without contacting the provider when
\* neither its argument nor the record has a refresh token, and fails when
\* the provider answers a non-success status; the record is left as it was
C20_RefreshFailsCleanly ==
  auth.op = "refresh" =>
    /\ (auth.arg = 0 /\ auth.before.refresh_token = 0) =>
         (auth.error = "RuntimeError" /\ ~auth.contacted /\ tokens = auth.before)
    /\ (auth.contacted /\ auth.resp.status = "rejected") =>
         (auth.error = "HTTPError" /\ tokens = auth.before)

\* the provider has rejected the refresh of an existing record
C20_Witness ==
  /\ auth.op = "refresh" /\ auth.contacted /\ auth.resp.status = "rejected"
  /\ auth.error = "HTTPError" /\ auth.before.exists /\ tokens = auth.before

(* ------------------------------------------------------------------ *)
(* Claims about the header and the order of rows (checked under SpecSeq) *)
(* ------------------------------------------------------------------ *)
\* the well-known primary columns first, in their fixed order, then the other
\* columns in lexicographic order
InHeaderOrder(h) ==
  \A i, j \in DOMAIN h :
    i < j =>
      IF h[i] \in Range(PRIMARY_COL_ORDER)
      THEN h[j] \in Range(PRIMARY_COL_ORDER) =>
             \E a, b \in DOMAIN PRIMARY_COL_ORDER :
               a < b /\ PRIMARY_COL_ORDER[a] = h[i] /\ PRIMARY_COL_ORDER[b] = h[j]
      ELSE h[j] \notin Range(PRIMARY_COL_ORDER) /\ StrLess(h[i], h[j])

\* the final merged rows of the flexible upsert just made
FinalRows ==
  FlexMerged(before, call.rows, KeyFields, call.opts.drop_fields,
             call.opts.sort_by, call.opts.reset_file)

\* C21 as stated, for every call of write_csv_upsert_flexible: the header is
\* in the documented order (primary columns first in their fixed order, the
\* others sorted); with strict_header it is exactly the set of keys of the
\* final merged rows; without strict_header it contains every column of the
\* header the file had before the call
C21_HeaderRuleAnyCall ==
  (call.n = 1 /\ call.impl = "flex") =>
    /\ InHeaderOrder(file.header)
    /\ call.opts.strict_header => Range(file.header) = RowsKeys(FinalRows)
    /\ ~call.opts.strict_header =>
         Range(before.header) \subseteq Range(file.header)

\* C21 (amended): as above, the second half for calls made without
\* reset_file, which discards the prior file and its header before merging
C21_HeaderRule ==
  (call.n = 1 /\ call.impl = "flex") =>
    /\ InHeaderOrder(file.header)
    /\ call.opts.strict_header => Range(file.header) = RowsKeys(FinalRows)
    /\ (~call.opts.strict_header /\ ~call.opts.reset_file) =>
         Range(before.header) \subseteq Range(file.header)

\* a strict call dropped a column of the prior header that no final row
\* carries, and wrote primary and other columns
C21_Witness ==
  /\ call.n = 1 /\ call.impl = "flex" /\ call.opts.strict_header
  /\ Range(before.header) \ Range(file.header) # {}
  /\ \E c \in Range(file.header) : c \notin Range(PRIMARY_COL_ORDER)
  /\ \E c \in Range(file.header) : c \in Range(PRIMARY_COL_ORDER)
  /\ file.rows # <<>>

\* the keys of a batch that are not stored yet, each once, in the order in
\* which the batch first shows them
RECURSIVE FirstSeenFrom(_, _, _, _)
FirstSeenFrom(seen, out, rows, i) ==
  IF i > Len(rows) THEN out
  ELSE LET k == RowKey(rows[i], KeyFields)
       IN IF k \in seen THEN FirstSeenFrom(seen, out, rows, i + 1)
          ELSE FirstSeenFrom(seen \cup {k}, Append(out, k), rows, i + 1)

NewKeys(f, rows) == FirstSeenFrom(StoredKeys(f), <<>>, rows, 1)

\* the key columns are written to the file, so that a stored row shows its key
KeysWritten(f) == Range(KeyFields) \subseteq Range(f.header)

\* the first position behind the first n rows at which key k is stored, 0
\* when there is none
PosBehind(f, n, k) ==
  LET S == {q \in DOMAIN f.rows : q > n /\ StoredKey(f, q) = k}
  IN IF S = {} THEN 0 ELSE CHOOSE q \in S : \A x \in S : q <= x

\* every row found is at the position it had, and the rows of the new keys
\* follow all of them in the order in which the batch first shows their key
PositionsKept ==
  LET n == Len(ReadRows(before))
      new == NewKeys(before, call.rows)
  IN /\ Len(file.rows) >= n
     /\ \A p \in 1..n : StoredKey(file, p) = StoredKey(before, p)
     /\ \A j \in DOMAIN new : PosBehind(file, n, new[j]) > 0
     /\ \A i, j \in DOMAIN new :
          i < j => PosBehind(file, n, new[i]) < PosBehind(file, n, new[j])

\* C22 as stated, for every upsert call made without a sort option (the key
\* columns are written): existing rows keep their position, new keys are
\* appended in first-seen order
C22_PositionsKeptAnyCall ==
  ( /\ call.n = 1 /\ call.opts.sort_by = <<>> /\ call.opts.sort_key = <<>>
    /\ KeysWritten(file) ) => PositionsKept

\* C22 (amended): the same for calls made without a sort option and without
\* reset_file, which discards the rows that existed before the call
C22_PositionsKept ==
  ( /\ call.n = 1 /\ call.opts.sort_by = <<>> /\ call.opts.sort_key = <<>>
    /\ ~call.opts.reset_file /\ KeysWritten(file) ) => PositionsKept

\* a call without sort that found the row of key A, was handed a new key first
\* and A's key second, and left A's row first and the new row behind it
C22_Witness ==
  /\ call.n = 1 /\ call.opts.sort_by = <<>> /\ ~call.opts.reset_file
  /\ Len(before.rows) = 1 /\ Len(call.rows) = 2 /\ Len(file.rows) = 2
  /\ KeysWritten(before) /\ KeysWritten(file)
  /\ RowKey(call.rows[1], KeyFields) \notin StoredKeys(before)
  /\ RowKey(call.rows[2], KeyFields) = StoredKey(before, 1)
  /\ StoredKey(file, 1) = StoredKey(before, 1)
  /\ StoredKey(file, 2) = RowKey(call.rows[1], KeyFields)

\* C23: an upsert call made without reset never truncates the dataset: it
\* leaves at least as many rows as it found, and every key tuple stored
\* before the call is still stored after it
C23_NeverTruncated ==
  (call.n > 0 /\ ~call.opts.reset_file) =>
    /\ Len(file.rows) >= Len(before.rows)
    /\ StoredKeys(before) \subseteq StoredKeys(file)

\* s is the beginning of t
IsPrefix(s, t) == Len(s) <= Len(t) /\ \A i \in DOMAIN s : s[i] = t[i]

\* where the batch first shows column c: the row and the place among the
\* row's keys
Arrivals(rows, c) ==
  UNION {{<<i, j>> : j \in {x \in DOMAIN rows[i].keys : rows[i].keys[x] = c}} :
           i \in DOMAIN rows}

\* column c arrives in the batch before column d does
ArrivesBefore(rows, c, d) ==
  \E a \in Arrivals(rows, c) :
    \A b \in Arrivals(rows, d) : a[1] < b[1] \/ (a[1] = b[1] /\ a[2] < b[2])

\* C24: upsert_csv without a schema starts from the existing header, or from
\* the first row's keys when the file is absent or empty. With
\* allow_new_columns the written header is that header followed by the new
\* columns of the batch, each once, in order of first arrival, so that a
\* column once in the header keeps its position over such calls; without
\* allow_new_columns the written header is exactly that header, and no other
\* column is written
C24_HeaderGrowth ==
  ( /\ call.n = 1 /\ call.impl = "csv" /\ call.opts.schema = <<>>
    /\ (ReadHeader(before) # <<>> \/ call.rows # <<>>) ) =>
    LET h0 == IF ReadHeader(before) # <<>> THEN ReadHeader(before)
              ELSE call.rows[1].keys
        h == file.header
    IN /\ \A p \in DOMAIN file.rows : DOMAIN file.rows[p] = Range(h)
       /\ IF call.opts.allow_new_columns
          THEN /\ IsPrefix(h0, h)
               /\ Range(h) = Range(h0) \cup RowsKeys(call.rows)
               /\ \A i, j \in DOMAIN h : i # j => h[i] # h[j]
               /\ \A i, j \in DOMAIN h :
                    (Len(h0) < i /\ i < j) => ArrivesBefore(call.rows, h[i], h[j])
          ELSE h = h0

\* a call with allow_new_columns found a header and appended two columns that
\* arrive in different rows of the batch
C24_Witness ==
  /\ call.n = 1 /\ call.impl = "csv" /\ call.opts.schema = <<>>
  /\ call.opts.allow_new_columns /\ ReadHeader(before) # <<>>
  /\ Len(file.header) = Len(before.header) + 2
  /\ \E c \in Range(file.header) \ Range(before.header) :
       Arrivals(call.rows, c) # {} /\ \A a \in Arrivals(call.rows, c) : a[1] = 2

\* C25: when a schema is given to upsert_csv, the written header is exactly
\* the schema in the given order, whatever the header found and the keys of
\* the incoming rows are, and no column outside the schema is written
C25_SchemaFreezesHeader ==
  (call.n = 1 /\ call.impl = "csv" /\ call.opts.schema # <<>>) =>
    /\ file.exists
    /\ file.header = call.opts.schema
    /\ \A p \in DOMAIN file.rows : DOMAIN file.rows[p] = Range(call.opts.schema)

\* a call with a schema found another header and rows, was handed a row with
\* a field outside the schema, and wrote the schema
C25_Witness ==
  /\ call.n = 1 /\ call.impl = "csv" /\ call.opts.schema # <<>>
  /\ before.exists /\ before.rows # <<>>
  /\ Range(before.header) \ Range(call.opts.schema) # {}
  /\ RowsKeys(call.rows) \ Range(call.opts.schema) # {}
  /\ file.header = call.opts.schema /\ Len(file.rows) > Len(before.rows)

(* ------------------------------------------------------------------ *)
(* Claims about the request headers (checked under SpecHdr)             *)
(* ------------------------------------------------------------------ *)
\* C26: every physical attempt of a logical call, the one re-sent after a 401
\* refresh included, carries the caller's value for every header the caller
\* supplied (Authorization and Api-Version included), not the engine's default
C26_CallerHeadersWin ==
  rq.attempt > 0 =>
    \A n \in HeaderNames :
      rq.headers[n] # NoValue => rq.sent_headers[n] = rq.headers[n]

(* ------------------------------------------------------------------ *)
(* Claims about null keys and untouched rows                            *)
(* ------------------------------------------------------------------ *)
\* the key tuple of a row whose key columns are all empty
EmptyKey == [i \in DOMAIN KeyFields |-> ""]

\* every row of the batch has all its key fields null or missing
NullKeysOnly(rows) ==
  \A i \in DOMAIN rows, x \in DOMAIN KeyFields :
    DictGet(rows[i], KeyFields[x], Absent) \in {PyNone, Absent}

\* C27: a key field that is missing or null counts as the empty string: when
\* the dataset stores a row whose key columns are empty, a batch of rows whose
\* key fields are null or missing is merged into that row and appends nothing
\* (checked under Spec)
C27_NullKeyIsEmptyKey ==
  ( /\ call.n = 1 /\ ~call.opts.reset_file /\ call.rows # <<>>
    /\ KeysWritten(before) /\ EmptyKey \in StoredKeys(before)
    /\ NullKeysOnly(call.rows) ) =>
    Len(file.rows) = Len(before.rows)

\* the row stored at position p before the call is stored after it with the
\* same value in every column it had (at the same position when the call does
\* not sort)
RowKept(p) ==
  /\ Range(before.header) \subseteq Range(file.header)
  /\ \E q \in DOMAIN file.rows :
       /\ call.opts.sort_by = <<>> => q = p
       /\ \A c \in Range(before.header) : file.rows[q][c] = before.rows[p][c]

\* every stored row whose key the batch does not show is kept
OthersKept ==
  \A p \in DOMAIN ReadRows(before) :
    StoredKey(before, p) \notin BatchKeys(call.rows) => RowKept(p)

\* C30 as stated, for every upsert call made without schema and without
\* drop_fields: a stored row whose key tuple does not occur in the batch has
\* after the call the value it had in every column (checked under SpecSeq)
C30_OtherRowsUnchangedAnyCall ==
  (call.n = 1 /\ call.opts.schema = <<>> /\ call.opts.drop_fields = <<>>) =>
    OthersKept

\* C30 (amended): the same for calls made without schema, without
\* drop_fields and without reset_file, which removes every stored row
C30_OtherRowsUnchanged ==
  ( /\ call.n = 1 /\ call.opts.schema = <<>> /\ call.opts.drop_fields = <<>>
    /\ ~call.opts.reset_file ) => OthersKept

\* a call changed the row of one key and left the row of the other key, which
\* its batch does not show, as it was
C30_Witness ==
  /\ call.n = 1 /\ call.opts.schema = <<>> /\ call.opts.drop_fields = <<>>
  /\ ~call.opts.reset_file /\ call.opts.sort_by = <<>>
  /\ Len(before.rows) = 2 /\ Len(file.rows) = 2 /\ KeysWritten(before)
  /\ \E p, q \in DOMAIN before.rows :
       /\ StoredKey(before, p) \notin BatchKeys(call.rows)
       /\ StoredKey(before, q) \in BatchKeys(call.rows)
       /\ \A c \in Range(before.header) : file.rows[p][c] = before.rows[p][c]
       /\ \E c \in Range(before.header) : file.rows[q][c] # before.rows[q][c]

(* ------------------------------------------------------------------ *)
(* Claims about a stale lock file (checked under SpecKillFair)          *)
(* ------------------------------------------------------------------ *)
\* a process was killed while it held the lock
SomeKilled == \E p \in Procs : procs[p].pc = "killed"

\* C28: once a process has been killed between acquiring and releasing the
\* lock file, the lock file stays in place, no call acquires the lock or
\* changes the dataset any more, and every call that still waits for the lock
\* ends with the timeout error (nothing in the model removes the lock file
\* from outside)
C28_StaleLockBlocks ==
  /\ [](SomeKilled => lock)
  /\ [][SomeKilled =>
          /\ file' = file
          /\ \A q \in Procs : procs'[q].acquired = procs[q].acquired]_vars
  /\ [](SomeKilled =>
          \A q \in Procs : procs[q].pc \in {"killed", "enter", "timeout", "done"})
  /\ (SomeKilled ~> \A q \in Procs : procs[q].pc # "enter")

\* one process was killed after it had written its temporary file, the other
\* polled the lock file and gave up with the timeout error
C28_Witness ==
  /\ \E p, q \in Procs :
       /\ procs[p].pc = "killed" /\ procs[p].acquired
       /\ procs[q].pc = "timeout" /\ procs[q].err /\ ~procs[q].acquired
       /\ procs[q].polls > MaxPolls /\ procs[q].rows # <<>>
  /\ lock /\ file = start

(* ------------------------------------------------------------------ *)
(* Claims about the scheduler (checked under SpecSched)                 *)
(* ------------------------------------------------------------------ *)

Backfilled == "backfill_campaigns_daily" \in sched.called

\* C29: in a scheduler process started with BACKFILL_ON_START and
\* BACKFILL_SINCE set, the backfill step runs in the first cycle of jobs and
\* in no later cycle of the same process.
C29_BackfillFirstCycleOnly ==
  sched.BACKFILL_ON_START /\ sched.BACKFILL_SINCE # "" =>
    /\ sched.cycle = 1 => Backfilled
    /\ sched.cycle > 1 => ~Backfilled

====
